---------------------------- MODULE Spec2Model ----------------------------
(***************************************************************************)
(* Quest-progress engine of the SYSTEM habit tracker:                      *)
(*   internal/store/store.go   (accounts, day keys, EXP, streaks, files)   *)
(*   internal/gemini/gemini.go (level-up stat allocation)                  *)
(*   the session layer         (model.Update)                              *)
(*                                                                         *)
(* Instants are absolute minutes.  A day key ("2006-01-02") is modelled as *)
(* the one-element sequence <<date>>, the empty string as <<>>.            *)
(***************************************************************************)
EXTENDS Integers, Sequences, FiniteSets, TLC

VARIABLES zone,       \* the time zone of the process (time.Local)
          clock,      \* the wall clock, an absolute instant in minutes
          nano,       \* [n, used]: the UnixNano reading, and whether an id was made from it
          authState,  \* model.authState of the session
          userData,   \* model.userData, the account in memory
          disk,       \* the file data/<username>.json
          cal,        \* TodayKey applied to a drawn instant and reset hour
          oracle,     \* GetLevelUpStats applied to a drawn answer of the API
          rt,         \* SaveUser and LoadUser applied to a drawn record
          sess,       \* the sessions logged in to one username, each with its copy
          lastDone,   \* the session whose SaveUser returned last
          crashed,    \* the process has crashed
          mu,         \* UserData.mu: the thread that holds it, or NoThread
          loc         \* the store method each thread runs, and its locals

vars == <<zone, clock, nano, authState, userData, disk, cal, oracle, rt,
          sess, lastDone, crashed, mu, loc>>

\* the variables of the function specifications, of the store specification
\* and of the lock specification
fnVars    == <<cal, oracle, rt>>
storeVars == <<sess, lastDone, crashed>>
lockVars  == <<mu, loc>>

(***************************************************************************)
(* Bounds of the model.                                                    *)
(***************************************************************************)
TransDate == 3   \* the date of the zone's offset transition, if it has one
DaysAfter == 0   \* the clock stops at the end of date TransDate + DaysAfter
MaxHabits == 2   \* AddHabit is called while the quest list is shorter
MaxNano   == 1   \* distinct UnixNano readings that ids are made from
MaxStat   == 5   \* the API answers with stat values in -2 .. MaxStat

(***************************************************************************)
(* package time: the local calendar                                        *)
(***************************************************************************)
Hour == 60                       \* time.Hour, in minutes

\* time.Local: a zone without offset transitions, or a window of a zone
\* around its spring-forward (02:00 -> 03:00) or fall-back (02:00 -> 01:00)
Zones == {"fixed", "spring", "fall"}

FirstDate == TransDate - 1       \* the clock starts on this date
LastDate  == TransDate + DaysAfter
NumDates  == LastDate + 2

\* the number of hours of local date d
DayLen(z, d) ==
    IF d = TransDate /\ z = "spring" THEN 23
    ELSE IF d = TransDate /\ z = "fall" THEN 25
    ELSE 24

\* the instant at which local date d begins
DayStart(z, d) ==
    Hour * (24 * d + (IF d > TransDate
                        THEN (IF z = "spring" THEN -1
                              ELSE IF z = "fall" THEN 1 ELSE 0)
                        ELSE 0))

\* Time.Date(): the local calendar date of instant t
DateOf(z, t) ==
    CHOOSE d \in -1 .. NumDates :
        /\ DayStart(z, d) <= t
        /\ t < DayStart(z, d) + Hour * DayLen(z, d)

\* Time.Hour(): the local hour of day of instant t
HourOf(z, t) ==
    LET d   == DateOf(z, t)
        off == (t - DayStart(z, d)) \div Hour
    IN  IF d = TransDate /\ z = "spring" /\ off >= 2 THEN off + 1
        ELSE IF d = TransDate /\ z = "fall" /\ off >= 2 THEN off - 1
        ELSE off

\* Time.Format("2006-01-02")
Format(z, t) == << DateOf(z, t) >>

FirstInstant == DayStart("fixed", FirstDate)

(***************************************************************************)
(* store.go: UserData.TodayKey                                             *)
(***************************************************************************)
TodayKey(r, z, now) ==
    IF HourOf(z, now) < r
        THEN Format(z, now - 24 * Hour)
        ELSE Format(z, now)

(***************************************************************************)
(* store.go: constants                                                     *)
(***************************************************************************)
EXPPerQuest      == 10
EXPPerLevel      == 100
DefaultLevel     == 1
DefaultResetHour == 4
baseStats        == 10

\* the empty Go map (a nil map reads the same: every lookup yields the zero value)
EmptyMap == << >>

\* m[k] of a map[string]bool: false when the key is absent
Lookup(m, k) == IF k \in DOMAIN m THEN m[k] ELSE FALSE

\* m[k] of a map[string]map[string]bool: the nil (empty) row when absent
Row(m, k) == IF k \in DOMAIN m THEN m[k] ELSE EmptyMap

\* a new map holding k alone, in place of m[k] = v
MapSetAlone(m, k, v) == [x \in {k} |-> v]

\* m[k] = v
MapSet(m, k, v) == [x \in DOMAIN m \cup {k} |-> IF x = k THEN v ELSE m[x]]

\* the ids of the current quests
HabitIDs(u) == { u.Habits[i].ID : i \in 1 .. Len(u.Habits) }

(***************************************************************************)
(* store.go: UserData.CompletedToday                                       *)
(***************************************************************************)
CompletedToday(u, z, now, habitID) ==
    Lookup(Row(u.DailyCompletions, TodayKey(u.DayResetHour, z, now)), habitID)

(***************************************************************************)
(* store.go: UserData.ToggleToday                                          *)
(***************************************************************************)
\* the level-up loop with > for >=
RECURSIVE LevelUpLoopStrict(_, _)
LevelUpLoopStrict(exp, level) ==
    IF exp > level * EXPPerLevel THEN LevelUpLoopStrict(exp, level + 1) ELSE level

\* for u.EXP >= u.Level*EXPPerLevel { u.Level++ }
\* ToggleToday without the level-up loop
LevelUpLoopNever(exp, level) == level

RECURSIVE LevelUpLoop(_, _)
LevelUpLoop(exp, level) ==
    IF exp >= level * EXPPerLevel THEN LevelUpLoop(exp, level + 1) ELSE level

\* un-completing without the de-level loop
LevelDownLoopSkipped(exp, level) == level

\* for u.Level > 1 && u.EXP < (u.Level-1)*EXPPerLevel { u.Level-- }
RECURSIVE LevelDownLoop(_, _)
LevelDownLoop(exp, level) ==
    IF level > 1 /\ exp < (level - 1) * EXPPerLevel
        THEN LevelDownLoop(exp, level - 1)
        ELSE level

\* the un-completion leaves EXP as it is
LoseEXPKept(exp) == exp

\* lines 89-92: EXP goes down by EXPPerQuest, not below 0
LoseEXP(exp) == IF exp - EXPPerQuest < 0 THEN 0 ELSE exp - EXPPerQuest

\* every call counted as a completion
GainedAlways(was) == TRUE

\* line 79: gainedEXP = !was
Gained(was) == ~was

\* the result is [u: the account afterwards, gainedEXP, leveledUp];
\* leveledUp is set in the body of the level-up loop, which runs at least
\* once exactly when its condition holds on entry
ToggleToday(u, z, now, habitID) ==
    LET today  == TodayKey(u.DayResetHour, z, now)
        row    == Row(u.DailyCompletions, today)
        was    == Lookup(row, habitID)
        dc     == MapSet(u.DailyCompletions, today, MapSet(row, habitID, ~was))
        gained == Gained(was)
        exp    == IF gained THEN u.EXP + EXPPerQuest ELSE LoseEXP(u.EXP)
        level  == IF gained THEN LevelUpLoop(exp, u.Level)
                  ELSE LevelDownLoop(exp, u.Level)
    IN  [u |-> [u EXCEPT !.DailyCompletions = dc, !.EXP = exp, !.Level = level],
         gainedEXP |-> gained,
         leveledUp |-> gained /\ exp >= u.Level * EXPPerLevel]

(***************************************************************************)
(* store.go: UserData.AllQuestsCompletedToday, UserData.UpdateStreak       *)
(***************************************************************************)
\* lines 126-138: every current quest is true in the row of day key today
AllComplete(u, today) ==
    /\ Len(u.Habits) # 0
    /\ \A i \in 1 .. Len(u.Habits) :
           Lookup(Row(u.DailyCompletions, today), u.Habits[i].ID)

AllQuestsCompletedToday(u, z, now) ==
    AllComplete(u, TodayKey(u.DayResetHour, z, now))

\* lines 159-164: the key of the day before the logical day of instant now
YesterdayKey(r, z, now) ==
    IF HourOf(z, now) < r
        THEN Format(z, (now - 24 * Hour) - 24 * Hour)
        ELSE Format(z, now - 24 * Hour)

\* lines 140-180 without the update of the personal best
UpdateStreakKeepsLongest(u, today, yesterdayKey) ==
    IF ~AllComplete(u, today)
    THEN IF u.LastCompleteDay = today
         THEN [u EXCEPT !.LastCompleteDay = << >>,
                        !.CurrentStreak =
                            IF u.CurrentStreak - 1 < 0 THEN 0
                            ELSE u.CurrentStreak - 1]
         ELSE u
    ELSE IF u.LastCompleteDay = today
    THEN u
    ELSE [u EXCEPT !.CurrentStreak =
                       IF u.LastCompleteDay = yesterdayKey
                           THEN u.CurrentStreak + 1 ELSE 1,
                   !.LastCompleteDay = today]

\* lines 140-180 with LastCompleteDay kept when a credited day is taken back
UpdateStreakKeepsDay(u, today, yesterdayKey) ==
    IF ~AllComplete(u, today)
    THEN IF u.LastCompleteDay = today
         THEN [u EXCEPT !.CurrentStreak =
                            IF u.CurrentStreak - 1 < 0 THEN 0
                            ELSE u.CurrentStreak - 1]
         ELSE u
    ELSE IF u.LastCompleteDay = today
    THEN u
    ELSE LET cur == IF u.LastCompleteDay = yesterdayKey
                    THEN u.CurrentStreak + 1
                    ELSE 1
         IN  [u EXCEPT !.CurrentStreak = cur,
                       !.LastCompleteDay = today,
                       !.LongestStreak =
                           IF cur > u.LongestStreak THEN cur
                           ELSE u.LongestStreak]

\* lines 125-180: the part of UpdateStreak that runs with the mutex held,
\* on the day key of line 121 and the key of lines 159-164
UpdateStreakLocked(u, today, yesterdayKey) ==
    IF ~AllComplete(u, today)
    THEN IF u.LastCompleteDay = today
         THEN [u EXCEPT !.LastCompleteDay = << >>,
                        !.CurrentStreak =
                            IF u.CurrentStreak - 1 < 0 THEN 0
                            ELSE u.CurrentStreak - 1]
         ELSE u
    ELSE IF u.LastCompleteDay = today
    THEN u
    ELSE LET cur == IF u.LastCompleteDay = yesterdayKey
                    THEN u.CurrentStreak + 1
                    ELSE 1
         IN  [u EXCEPT !.CurrentStreak = cur,
                       !.LastCompleteDay = today,
                       !.LongestStreak =
                           IF cur > u.LongestStreak THEN cur
                           ELSE u.LongestStreak]

\* UpdateStreak run by one thread: t1 is the clock reading of line 121
\* (TodayKey), t2 that of line 159
UpdateStreak(u, z, t1, t2) ==
    UpdateStreakLocked(u, TodayKey(u.DayResetHour, z, t1),
                       YesterdayKey(u.DayResetHour, z, t2))

(***************************************************************************)
(* store.go: settings and quest management                                 *)
(***************************************************************************)
\* the result is [u, err]
\* UpdateDayResetHour with > 24 for > 23
UpdateDayResetHourOffByOne(u, hour) ==
    IF hour < 0 \/ hour > 24
        THEN [u |-> u, err |-> TRUE]
        ELSE [u |-> [u EXCEPT !.DayResetHour = hour], err |-> FALSE]

UpdateDayResetHour(u, hour) ==
    IF hour < 0 \/ hour > 23
        THEN [u |-> u, err |-> TRUE]
        ELSE [u |-> [u EXCEPT !.DayResetHour = hour], err |-> FALSE]

\* fmt.Sprintf("h_%d", time.Now().UnixNano())
HabitID(unixNano) == << "h_", unixNano >>

AddHabit(u, name, unixNano) ==
    [u EXCEPT !.Habits = Append(u.Habits, [ID |-> HabitID(unixNano), Name |-> name])]

\* RemoveHabit that also deletes the ledger entries of the removed quest
RemoveHabitPurges(u, index) ==
    IF index < 0 \/ index >= Len(u.Habits)
        THEN [u |-> u, ok |-> FALSE]
        ELSE [u |-> [u EXCEPT
                        !.Habits = SubSeq(u.Habits, 1, index)
                            \o SubSeq(u.Habits, index + 2, Len(u.Habits)),
                        !.DailyCompletions =
                            [d \in DOMAIN u.DailyCompletions |->
                                [id \in DOMAIN u.DailyCompletions[d]
                                        \ {u.Habits[index + 1].ID} |->
                                    u.DailyCompletions[d][id]]]],
              ok |-> TRUE]

\* index is 0-based as in the source; the result is [u, ok]
RemoveHabit(u, index) ==
    IF index < 0 \/ index >= Len(u.Habits)
        THEN [u |-> u, ok |-> FALSE]
        ELSE [u |-> [u EXCEPT !.Habits =
                        SubSeq(u.Habits, 1, index)
                            \o SubSeq(u.Habits, index + 2, Len(u.Habits))],
              ok |-> TRUE]

ApplyLevelUpStats(u, str, vit, agi, intel) ==
    [u EXCEPT !.STR = u.STR + str, !.VIT = u.VIT + vit,
              !.AGI = u.AGI + agi, !.INT = u.INT + intel]

EXPForNextLevel(u) == u.Level * EXPPerLevel

EXPInCurrentLevel(u) == u.EXP - (u.Level - 1) * EXPPerLevel

\* lines 353-365: the account CreateUser builds
NewUser(username, hash) ==
    [Username |-> username, PasswordHash |-> hash, Habits |-> << >>,
     Level |-> DefaultLevel, EXP |-> 0,
     STR |-> baseStats + DefaultLevel, VIT |-> baseStats + DefaultLevel,
     AGI |-> baseStats + DefaultLevel, INT |-> baseStats + DefaultLevel,
     CurrentStreak |-> 0, LongestStreak |-> 0, LastCompleteDay |-> << >>,
     DailyCompletions |-> EmptyMap, DayResetHour |-> DefaultResetHour]

\* the zero value of UserData
ZeroUser ==
    [Username |-> "", PasswordHash |-> "", Habits |-> << >>,
     Level |-> 0, EXP |-> 0, STR |-> 0, VIT |-> 0, AGI |-> 0, INT |-> 0,
     CurrentStreak |-> 0, LongestStreak |-> 0, LastCompleteDay |-> << >>,
     DailyCompletions |-> EmptyMap, DayResetHour |-> 0]

(***************************************************************************)
(* encoding/json over UserData, and the file data/<username>.json          *)
(*                                                                         *)
(* A file is [exists, data]; data is a sequence of tokens [k, v]: an       *)
(* opening brace, one token per scalar field, per quest, per ledger row    *)
(* and per ledger entry in the order of the struct's fields, and a closing *)
(* brace.                                                                  *)
(***************************************************************************)
Tok(k, v) == [k |-> k, v |-> v]

RECURSIVE SortedSeq(_)
SortedSeq(S) ==
    IF S = {} THEN << >>
    ELSE LET m == CHOOSE x \in S : \A y \in S : x <= y
         IN  << m >> \o SortedSeq(S \ {m})

RECURSIVE Concat(_)
Concat(ss) == IF ss = << >> THEN << >> ELSE Head(ss) \o Concat(Tail(ss))

\* the entries of one ledger row, by quest id
RowToks(day, row) ==
    LET ns == SortedSeq({ id[2] : id \in DOMAIN row })
    IN  [i \in 1 .. Len(ns) |->
            Tok("daily_completions",
                [day |-> day, id |-> HabitID(ns[i]), done |-> row[HabitID(ns[i])]])]

\* the rows of the ledger by day key, each followed by its entries
LedgerToks(dc) ==
    LET ds == SortedSeq({ day[1] : day \in DOMAIN dc })
    IN  Concat([i \in 1 .. Len(ds) |->
                   << Tok("daily_completions_row", << ds[i] >>) >>
                       \o RowToks(<< ds[i] >>, dc[<< ds[i] >>])])

HabitToks(habits) == [i \in 1 .. Len(habits) |-> Tok("habits", habits[i])]

\* json.MarshalIndent(u, "", "  ")
Marshal(u) ==
    << Tok("{", 0), Tok("username", u.Username),
       Tok("password_hash", u.PasswordHash) >>
    \o HabitToks(u.Habits)
    \o << Tok("level", u.Level), Tok("exp", u.EXP), Tok("str", u.STR),
          Tok("vit", u.VIT), Tok("agi", u.AGI), Tok("int", u.INT),
          Tok("current_streak", u.CurrentStreak),
          Tok("longest_streak", u.LongestStreak),
          Tok("last_complete_day", u.LastCompleteDay) >>
    \o LedgerToks(u.DailyCompletions)
    \o << Tok("day_reset_hour", u.DayResetHour), Tok("}", 0) >>

\* the text is one JSON object: it opens with a brace and its only closing
\* brace is its last token (an empty, cut or over-long text is rejected)
WellFormed(data) ==
    /\ Len(data) >= 2
    /\ data[1].k = "{"
    /\ \A i \in 1 .. Len(data) : (data[i].k = "}") <=> (i = Len(data))
    /\ \A i \in 2 .. Len(data) : data[i].k # "{"

\* the value of scalar field k, or the zero value when the field is absent
Field(data, k, zero) ==
    IF \E i \in 1 .. Len(data) : data[i].k = k
        THEN data[CHOOSE i \in 1 .. Len(data) : data[i].k = k].v
        ELSE zero

\* json.Unmarshal(data, &u) of a well-formed text
Unmarshal(data) ==
    LET hs   == SelectSeq(data, LAMBDA t : t.k = "habits")
        es   == { data[i].v : i \in { j \in 1 .. Len(data) :
                                        data[j].k = "daily_completions" } }
        days == { data[i].v : i \in { j \in 1 .. Len(data) :
                                         data[j].k = "daily_completions_row" } }
    IN  [Username |-> Field(data, "username", ""),
         PasswordHash |-> Field(data, "password_hash", ""),
         Habits |-> [i \in 1 .. Len(hs) |-> hs[i].v],
         Level |-> Field(data, "level", 0),
         EXP |-> Field(data, "exp", 0),
         STR |-> Field(data, "str", 0),
         VIT |-> Field(data, "vit", 0),
         AGI |-> Field(data, "agi", 0),
         INT |-> Field(data, "int", 0),
         CurrentStreak |-> Field(data, "current_streak", 0),
         LongestStreak |-> Field(data, "longest_streak", 0),
         LastCompleteDay |-> Field(data, "last_complete_day", << >>),
         DailyCompletions |->
             [d \in days |->
                 [id \in { e.id : e \in { x \in es : x.day = d } } |->
                     (CHOOSE e \in es : e.day = d /\ e.id = id).done]],
         DayResetHour |-> Field(data, "day_reset_hour", 0)]

NoFile == [exists |-> FALSE, data |-> << >>]

(***************************************************************************)
(* store.go: LoadUser, UserExists, AuthUser, CreateUser, SaveUser          *)
(***************************************************************************)
\* lines 287-309: the defaults LoadUser fills in
LoadDefaults(v) ==
    LET level == IF v.Level < 1 THEN DefaultLevel ELSE v.Level
    IN  [v EXCEPT
            !.Level = level,
            !.DayResetHour = IF v.DayResetHour < 0 \/ v.DayResetHour > 23
                                 THEN DefaultResetHour ELSE v.DayResetHour,
            !.STR = IF v.STR = 0 THEN baseStats + level ELSE v.STR,
            !.VIT = IF v.VIT = 0 THEN baseStats + level ELSE v.VIT,
            !.AGI = IF v.AGI = 0 THEN baseStats + level ELSE v.AGI,
            !.INT = IF v.INT = 0 THEN baseStats + level ELSE v.INT]

\* the result is [u, err]; err is "" on success
LoadUser(file) ==
    IF ~file.exists THEN [u |-> ZeroUser, err |-> "not exist"]
    ELSE IF ~WellFormed(file.data) THEN [u |-> ZeroUser, err |-> "unmarshal"]
    ELSE [u |-> LoadDefaults(Unmarshal(file.data)), err |-> ""]

UserExists(file) == file.exists

\* bcrypt.GenerateFromPassword, as an opaque one-way tag of the password
Hash(password) == "bcrypt:" \o password

AuthUser(file, password) ==
    LET r == LoadUser(file)
    IN  IF r.err = "not exist" THEN [u |-> ZeroUser, err |-> "unknown user"]
        ELSE IF r.err # "" THEN r
        ELSE IF r.u.PasswordHash # Hash(password)
            THEN [u |-> ZeroUser, err |-> "invalid password"]
        ELSE r

\* os.WriteFile: open with O_CREATE|O_TRUNC, then write at offset 0
OpenTrunc(file) == [exists |-> TRUE, data |-> << >>]

WriteAt0(file, data) ==
    [exists |-> TRUE,
     data |-> data \o SubSeq(file.data, Len(data) + 1, Len(file.data))]

\* SaveUser run without interruption
SaveUser(file, u) == WriteAt0(OpenTrunc(file), Marshal(u))

(***************************************************************************)
(* gemini.go: GetLevelUpStats, randomFallback, normalizeStats              *)
(***************************************************************************)
pointsToAllocate == 4

Stats(str, vit, agi, intel) == [STR |-> str, VIT |-> vit, AGI |-> agi, INT |-> intel]

Total(st) == st.STR + st.VIT + st.AGI + st.INT

\* the splits randomFallback can return: rand.Intn(remaining + 1) for STR,
\* then VIT and AGI while points remain, and the rest for INT
randomFallback(points) ==
    { Stats(a, b, c, points - a - b - c) :
        a \in 0 .. points, b \in 0 .. points, c \in 0 .. points }
    \cap { st \in [STR : 0 .. points, VIT : 0 .. points,
                   AGI : 0 .. points, INT : 0 .. points] : Total(st) = points }

\* float64 is IEEE 754 binary64: a significand of 53 bits, operations rounded
\* to the nearest value, ties to the even significand.  A significand is kept
\* in three limbs, hi * 2^36 + mid * 2^18 + lo with mid, lo < 2^18, so that
\* no step leaves the integers of 32 bits (values up to 2^9 are multiplied).
SignificandBits == 53
LimbBits == 18

Abs(n) == IF n < 0 THEN 0 - n ELSE n

RECURSIVE Pow2(_)
Pow2(k) == IF k <= 0 THEN 1 ELSE 2 * Pow2(k - 1)

Limb == Pow2(LimbBits)

\* the e with 2^e <= num / den < 2^(e+1), for num, den > 0
RECURSIVE ExpUp(_, _, _)
ExpUp(num, den, e) == IF 2 * den <= num THEN ExpUp(num, 2 * den, e + 1) ELSE e

RECURSIVE ExpDown(_, _, _)
ExpDown(num, den, e) == IF num >= den THEN e ELSE ExpDown(2 * num, den, e - 1)

Exponent(num, den) == IF num >= den THEN ExpUp(num, den, 0) ELSE ExpDown(num, den, 0)

\* float64(num) / float64(den) for num, den > 0: the significand [hi, mid,
\* lo] and the exponent e, the quotient being significand * 2^(e - 52)
FloatDiv(num, den) ==
    LET e  == Exponent(num, den)
        a  == IF e < 0 THEN num * Pow2(0 - e) ELSE num
        b  == IF e < 0 THEN den ELSE den * Pow2(e)
        hb == SignificandBits - 1 - 2 * LimbBits
        hi  == (a * Pow2(hb)) \div b
        r1  == (a * Pow2(hb)) % b
        mid == (r1 * Limb) \div b
        r2  == (r1 * Limb) % b
        lo  == (r2 * Limb) \div b
        r3  == (r2 * Limb) % b
        up  == 2 * r3 > b \/ (2 * r3 = b /\ lo % 2 = 1)
        lo2  == IF up THEN lo + 1 ELSE lo
        mid2 == IF lo2 = Limb THEN mid + 1 ELSE mid
    IN  [hi  |-> IF mid2 = Limb THEN hi + 1 ELSE hi,
         mid |-> mid2 % Limb,
         lo  |-> lo2 % Limb,
         e   |-> e]

\* whether the bits of value (width bits wide) from bit k upwards are all 1
OnesAbove(value, width, k) ==
    IF k >= width THEN TRUE
    ELSE (value \div Pow2(k)) = Pow2(width - (IF k < 0 THEN 0 ELSE k)) - 1

\* int(float64(x) * scale) for x > 0: the product is rounded to a float64
\* before int() cuts it, so a product less than half a unit in the last
\* place below the integer n + 1 (or exactly that) gives n + 1
FloatMulInt(x, scale) ==
    LET lo   == (scale.lo * x) % Limb
        c1   == (scale.lo * x) \div Limb
        mid  == (scale.mid * x + c1) % Limb
        c2   == (scale.mid * x + c1) \div Limb
        hi   == scale.hi * x + c2
        frac == (SignificandBits - 1) - scale.e
        hw   == frac - 2 * LimbBits
        n    == hi \div Pow2(hw)
        e    == IF n = 0 THEN 0 - 1 ELSE Exponent(n, 1)
        k    == frac - (SignificandBits - e)
    IN  IF /\ k >= 0
           /\ OnesAbove(lo, LimbBits, k)
           /\ OnesAbove(mid, LimbBits, k - LimbBits)
           /\ OnesAbove(hi % Pow2(hw), hw, k - 2 * LimbBits)
            THEN n + 1 ELSE n

\* int(float64(x) * (float64(targetPoints) / float64(total))), total # 0
Scale(x, targetPoints, total) ==
    IF x = 0 \/ targetPoints = 0 THEN 0
    ELSE LET scale == FloatDiv(Abs(targetPoints), Abs(total))
             mag   == FloatMulInt(Abs(x), scale)
         IN  IF ((x < 0) # (targetPoints < 0)) # (total < 0) THEN 0 - mag ELSE mag

\* lines 207-221: the rounding difference goes to one stat
Adjust(result, diff) ==
    IF diff > 0 THEN [result EXCEPT !.STR = result.STR + diff]
    ELSE IF diff < 0 THEN
        IF result.STR >= 0 - diff THEN [result EXCEPT !.STR = result.STR + diff]
        ELSE IF result.VIT >= 0 - diff THEN [result EXCEPT !.VIT = result.VIT + diff]
        ELSE IF result.AGI >= 0 - diff THEN [result EXCEPT !.AGI = result.AGI + diff]
        ELSE [result EXCEPT !.INT = result.INT + diff]
    ELSE result

\* the set of results normalizeStats can return
normalizeStats(st, targetPoints) ==
    LET total == Total(st)
    IN  IF total = 0 THEN randomFallback(targetPoints)
        ELSE LET result == Stats(Scale(st.STR, targetPoints, total),
                                 Scale(st.VIT, targetPoints, total),
                                 Scale(st.AGI, targetPoints, total),
                                 Scale(st.INT, targetPoints, total))
             IN  { Adjust(result, targetPoints - Total(result)) }

\* what the call of the API comes to: a failure before the stats are parsed
\* (transport, status, body, candidates, no JSON object, JSON of the wrong
\* shape), or a parsed object (absent fields are 0)
AnswerKinds == {"transport", "status", "body", "empty", "no json", "bad json", "stats"}

NoAnswer == [kind |-> "", st |-> Stats(0, 0, 0, 0), out |-> Stats(0, 0, 0, 0),
             err |-> FALSE, called |-> FALSE]

\* the set of [out, err] GetLevelUpStats can return on answer a
GetLevelUpStats(a) ==
    IF a.kind # "stats"
        THEN { [out |-> f, err |-> TRUE] : f \in randomFallback(pointsToAllocate) }
    ELSE IF Total(a.st) # pointsToAllocate
        THEN { [out |-> f, err |-> FALSE] : f \in normalizeStats(a.st, pointsToAllocate) }
    ELSE { [out |-> a.st, err |-> FALSE] }

(***************************************************************************)
(* The parts of the state a specification leaves alone                     *)
(***************************************************************************)
NoCal == [r |-> 0, key |-> << >>, called |-> FALSE,
          stage |-> "", now |-> 0, next |-> 0, until |-> 0, reads |-> 0]

NoRT == [saved |-> ZeroUser, loaded |-> ZeroUser, err |-> "", called |-> FALSE,
         absent |-> {}]

NoThread == "none"

IdleSession ==
    /\ nano = [n |-> 0, used |-> FALSE]
    /\ authState = "login"
    /\ userData = ZeroUser
    /\ disk = NoFile

IdleFns == cal = NoCal /\ oracle = NoAnswer /\ rt = NoRT

IdleStore == sess = << >> /\ lastDone = 0 /\ crashed = FALSE

IdleLock == mu = NoThread /\ loc = << >>

(***************************************************************************)
(* Spec: one session working on one account through the store             *)
(***************************************************************************)
\* the instant of local time h:00 on date d (the first one, if there are two)
InstantAt(z, d, h) ==
    DayStart(z, d) + Hour *
        (IF d = TransDate /\ z = "spring" /\ h >= 3 THEN h - 1
         ELSE IF d = TransDate /\ z = "fall" /\ h >= 2 THEN h + 1
         ELSE h)

\* the hours of day at which the session is observed
SampleHours == {3, 23}

Instants(z) ==
    { InstantAt(z, d, h) : d \in FirstDate .. LastDate, h \in SampleHours }

HasNext(z, t) == \E t2 \in Instants(z) : t2 > t

NextInstant(z, t) ==
    CHOOSE t2 \in Instants(z) :
        /\ t2 > t
        /\ \A t3 \in Instants(z) : t3 > t => t2 <= t3

\* what the user types; a password is made of single-byte runes (main.go,
\* line 138), so that len(password) is its number of characters
Usernames == {"bob", " Bob ", ""}
Passwords == {"hunter", "ab"}
HourInputs == {-1, 0, 4, 24}
Names == {"run"}

\* strings.TrimSpace(strings.ToLower(username)), on the names typed
Normalize(username) ==
    CASE username = " Bob " -> "bob"
      [] OTHER -> username

\* a record the program wrote in an earlier session: nine quests were
\* completed on date 0 and removed since
Veteran ==
    [NewUser("bob", Hash("hunter")) EXCEPT
        !.EXP = 90,
        !.DailyCompletions =
            [d \in {<< 0 >>} |-> [id \in { HabitID(0 - k) : k \in 1 .. 9 } |-> TRUE]]]

StoredRecords == { Veteran }

Init ==
    /\ zone \in Zones
    /\ clock = InstantAt(zone, FirstDate, 0)
    /\ nano = [n |-> 1, used |-> FALSE]
    /\ authState = "login"
    /\ userData = ZeroUser
    /\ disk \in {NoFile} \cup { SaveUser(NoFile, v) : v \in StoredRecords }
    /\ IdleFns
    /\ IdleStore
    /\ IdleLock

\* the UnixNano reading once time has passed: a new one, numbered in the
\* order in which ids are made (only the equality of readings matters)
NanoAfter(nn) == IF nn.used THEN [n |-> nn.n + 1, used |-> FALSE] ELSE nn

\* time passes: the clock reaches the next observed instant
Tick ==
    /\ HasNext(zone, clock)
    /\ clock' = NextInstant(zone, clock)
    /\ nano' = NanoAfter(nano)
    /\ UNCHANGED <<zone, authState, userData, disk, fnVars, storeVars, lockVars>>

\* time passes within the observed instant: only the UnixNano reading moves
Elapse ==
    /\ nano.used
    /\ nano' = NanoAfter(nano)
    /\ UNCHANGED <<zone, clock, authState, userData, disk, fnVars, storeVars, lockVars>>

\* model.Update, "enter" on the login form
Login ==
    /\ authState = "login"
    /\ \E name \in Usernames, password \in Passwords :
        LET r == AuthUser(disk, password)
        IN  /\ Normalize(name) = "bob"
            /\ IF r.err = ""
                 THEN userData' = r.u /\ authState' = "main"
                 ELSE UNCHANGED <<userData, authState>>
    /\ UNCHANGED <<zone, clock, nano, disk, fnVars, storeVars, lockVars>>

\* store.CreateUser, lines 337-370
CreateUserErr(file, username, password) ==
    IF Normalize(username) = "" THEN "username required"
    ELSE IF Len(password) < 4 THEN "password must be at least 4 characters"
    ELSE IF UserExists(file) THEN "username already taken"
    ELSE ""

\* CreateUser without the check of lines 345-347
CreateUserTakesOver(file, username, password) ==
    LET v == NewUser(Normalize(username), Hash(password))
    IN  IF Normalize(username) = "" \/ Len(password) < 4
            THEN [file |-> file, u |-> ZeroUser,
                  err |-> CreateUserErr(NoFile, username, password)]
            ELSE [file |-> SaveUser(file, v), u |-> v, err |-> ""]

\* store.CreateUser on the file of the normalized username: the result is
\* [file, u, err], err is "" on success
CreateUser(file, username, password) ==
    LET err == CreateUserErr(file, username, password)
        v   == NewUser(Normalize(username), Hash(password))
    IN  IF err = ""
            THEN [file |-> SaveUser(file, v), u |-> v, err |-> ""]
            ELSE [file |-> file, u |-> ZeroUser, err |-> err]

\* model.Update, "enter" on the register form
Register ==
    /\ authState = "login"
    /\ \E name \in Usernames, password \in Passwords :
        LET r == CreateUser(disk, name, password)
        IN  /\ disk' = r.file
            /\ IF r.err = ""
                 THEN userData' = r.u /\ authState' = "main"
                 ELSE UNCHANGED <<userData, authState>>
    /\ UNCHANGED <<zone, clock, nano, fnVars, storeVars, lockVars>>

\* the session ends (tea.Quit); the next one starts at the login form
Quit ==
    /\ authState = "main"
    /\ authState' = "login"
    /\ userData' = ZeroUser
    /\ UNCHANGED <<zone, clock, nano, disk, fnVars, storeVars, lockVars>>

\* the toggle on any id, not only on the quest under the cursor
DoToggleTodayAnyQuest ==
    /\ authState = "main"
    /\ \E q \in { HabitID(n) : n \in -1 .. (MaxNano + 1) } :
        LET r == ToggleToday(userData, zone, clock, q)
        IN  /\ userData' = r.u
            /\ disk' = SaveUser(disk, r.u)
    /\ UNCHANGED <<zone, clock, nano, authState, fnVars, storeVars, lockVars>>

\* model.Update, " ": the quest under the cursor is toggled and saved
DoToggleToday ==
    /\ authState = "main"
    /\ \E q \in HabitIDs(userData) :
        LET r == ToggleToday(userData, zone, clock, q)
        IN  /\ userData' = r.u
            /\ disk' = SaveUser(disk, r.u)
    /\ UNCHANGED <<zone, clock, nano, authState, fnVars, storeVars, lockVars>>

\* between the clock readings of lines 121 and 159 time may pass
DoUpdateStreak ==
    /\ authState = "main"
    /\ \E t2 \in {clock} \cup (IF HasNext(zone, clock)
                                 THEN {NextInstant(zone, clock)} ELSE {}) :
        /\ userData' = UpdateStreak(userData, zone, clock, t2)
        /\ disk' = SaveUser(disk, userData')
        /\ clock' = t2
    /\ nano' = IF clock' # clock THEN NanoAfter(nano) ELSE nano
    /\ UNCHANGED <<zone, authState, fnVars, storeVars, lockVars>>

DoAddHabit ==
    /\ authState = "main"
    /\ Len(userData.Habits) < MaxHabits
    /\ nano.n <= MaxNano
    /\ \E name \in Names : userData' = AddHabit(userData, name, nano.n)
    /\ disk' = SaveUser(disk, userData')
    /\ nano' = [nano EXCEPT !.used = TRUE]
    /\ UNCHANGED <<zone, clock, authState, fnVars, storeVars, lockVars>>

DoRemoveHabit ==
    /\ authState = "main"
    /\ \E i \in -1 .. MaxHabits :
        LET r == RemoveHabit(userData, i)
        IN  /\ userData' = r.u
            /\ disk' = IF r.ok THEN SaveUser(disk, r.u) ELSE disk
    /\ UNCHANGED <<zone, clock, nano, authState, fnVars, storeVars, lockVars>>

DoUpdateDayResetHour ==
    /\ authState = "main"
    /\ \E h \in HourInputs :
        LET r == UpdateDayResetHour(userData, h)
        IN  /\ userData' = r.u
            /\ disk' = IF r.err THEN disk ELSE SaveUser(disk, r.u)
    /\ UNCHANGED <<zone, clock, nano, authState, fnVars, storeVars, lockVars>>

Next ==
    \/ Tick
    \/ Elapse
    \/ Login
    \/ Register
    \/ Quit
    \/ DoToggleToday
    \/ DoUpdateStreak
    \/ DoAddHabit
    \/ DoRemoveHabit
    \/ DoUpdateDayResetHour

Spec == Init /\ [][Next]_vars

(***************************************************************************)
(* SpecCal: TodayKey as a function of the instant and the reset hour       *)
(***************************************************************************)
ResetHours == 0 .. 23

\* the instants drawn: every half hour from the day before the transition
\* to the end of the day after it
CalInstants(z) ==
    { t \in FirstInstant .. (DayStart(z, TransDate + 2) - 1) : t % 30 = 0 }

InitCal ==
    /\ zone \in Zones
    /\ clock \in CalInstants(zone)
    /\ cal = NoCal
    /\ oracle = NoAnswer
    /\ rt = NoRT
    /\ IdleSession
    /\ IdleStore
    /\ IdleLock

CalSetResetHour ==
    /\ ~cal.called
    /\ \E r \in ResetHours : cal' = [cal EXCEPT !.r = r]
    /\ UNCHANGED <<zone, clock, nano, authState, userData, disk, oracle, rt,
                   storeVars, lockVars>>

CalTodayKey ==
    /\ ~cal.called
    /\ cal' = [cal EXCEPT !.key = TodayKey(cal.r, zone, clock), !.called = TRUE]
    /\ UNCHANGED <<zone, clock, nano, authState, userData, disk, oracle, rt,
                   storeVars, lockVars>>

NextCal == CalSetResetHour \/ CalTodayKey

SpecCal == InitCal /\ [][NextCal]_vars

(***************************************************************************)
(* store.go: UserData.NextResetTime, UserData.TimeUntilReset               *)
(***************************************************************************)
\* time.Date(y, m, d, h, 0, 0, 0, time.Local): the instants it can return.
\* For an hour that the date skips or has twice, Date returns a time that is
\* correct in one of the two offsets of the transition, either one.
Date(z, d, h) ==
    IF d = TransDate /\ z = "spring" /\ h = 2
        THEN { DayStart(z, d) + 1 * Hour, DayStart(z, d) + 2 * Hour }
    ELSE IF d = TransDate /\ z = "fall" /\ h = 1
        THEN { DayStart(z, d) + 1 * Hour, DayStart(z, d) + 2 * Hour }
    ELSE { InstantAt(z, d, h) }

\* the instants NextResetTime can return when it reads the clock at now
NextResetTime(r, z, now) ==
    { IF now >= todayReset THEN todayReset + 24 * Hour ELSE todayReset :
        todayReset \in Date(z, DateOf(z, now), r) }

\* time.Until(t), reading the clock at now
Until(t, now) == t - now

(***************************************************************************)
(* SpecReset: TimeUntilReset as a function of the instant and the reset    *)
(* hour; the clock may move between the reading of NextResetTime (line     *)
(* 194) and that of time.Until (line 206).                                 *)
(***************************************************************************)
MaxElapse == 2

\* the instants drawn: minutes 0, 30 and 59 of every hour
ResetInstants(z) ==
    { t \in FirstInstant .. (DayStart(z, TransDate + 2) - 1) :
        t % Hour \in {0, 30, 59} }

InitReset ==
    /\ zone \in Zones
    /\ clock \in ResetInstants(zone)
    /\ cal \in { [NoCal EXCEPT !.r = r] : r \in ResetHours }
    /\ oracle = NoAnswer
    /\ rt = NoRT
    /\ IdleSession
    /\ IdleStore
    /\ IdleLock

resetFrame == <<zone, nano, authState, userData, disk, oracle, rt,
                storeVars, lockVars>>

\* lines 193-202
ResetNextResetTime ==
    /\ cal.stage = ""
    /\ \E t \in NextResetTime(cal.r, zone, clock) :
        cal' = [cal EXCEPT !.stage = "next", !.now = clock, !.next = t]
    /\ UNCHANGED <<clock, resetFrame>>

\* a minute passes between the two readings of the clock
ResetElapse ==
    /\ cal.stage = "next"
    /\ cal.reads < MaxElapse
    /\ clock' = clock + 1
    /\ cal' = [cal EXCEPT !.reads = cal.reads + 1]
    /\ UNCHANGED resetFrame

\* line 206
ResetUntil ==
    /\ cal.stage = "next"
    /\ cal' = [cal EXCEPT !.stage = "done", !.until = Until(cal.next, clock)]
    /\ UNCHANGED <<clock, resetFrame>>

NextReset == ResetNextResetTime \/ ResetElapse \/ ResetUntil

SpecReset == InitReset /\ [][NextReset]_vars

(***************************************************************************)
(* SpecStats: GetLevelUpStats as a function of the answer of the API       *)
(***************************************************************************)
\* the values the API answers: small ones, and 49 as in an answer in percent
StatValues == (-2 .. MaxStat) \cup {49}

InitStats ==
    /\ zone = "fixed"
    /\ clock = FirstInstant
    /\ cal = NoCal
    /\ rt = NoRT
    /\ IdleSession
    /\ IdleStore
    /\ IdleLock
    /\ \E kind \in AnswerKinds, a \in StatValues, b \in StatValues,
          c \in StatValues, d \in StatValues :
        /\ kind # "stats" => a = 0 /\ b = 0 /\ c = 0 /\ d = 0
        /\ oracle = [NoAnswer EXCEPT !.kind = kind, !.st = Stats(a, b, c, d)]

CallGetLevelUpStats ==
    /\ ~oracle.called
    /\ \E r \in GetLevelUpStats(oracle) :
        oracle' = [oracle EXCEPT !.out = r.out, !.err = r.err, !.called = TRUE]
    /\ UNCHANGED <<zone, clock, nano, authState, userData, disk, cal, rt,
                   storeVars, lockVars>>

NextStats == CallGetLevelUpStats

SpecStats == InitStats /\ [][NextStats]_vars

(***************************************************************************)
(* SpecRT: SaveUser, then LoadUser, on a record drawn from bounded sets    *)
(***************************************************************************)
RTStats == {0, 1, 12}

RTLedgers ==
    { EmptyMap,
      [d \in {<< 2 >>} |-> EmptyMap],
      [d \in {<< 2 >>} |-> [id \in {HabitID(1)} |-> TRUE]] }

RTRecords ==
    { [NewUser("bob", Hash("hunter")) EXCEPT
          !.Level = lv, !.EXP = lv * EXPPerLevel - ex,
          !.STR = a, !.VIT = b, !.AGI = c, !.INT = d,
          !.DayResetHour = r,
          !.CurrentStreak = st, !.LongestStreak = 2 * st,
          !.LastCompleteDay = IF st = 0 THEN << >> ELSE << 2 >>,
          !.Habits = hs, !.DailyCompletions = dc] :
        lv \in {1, 2}, ex \in {EXPPerQuest, EXPPerLevel},
        a \in RTStats, b \in RTStats, c \in RTStats, d \in RTStats,
        r \in {0, 23}, st \in {0, 1},
        hs \in { << >>, << [ID |-> HabitID(1), Name |-> "run"] >> },
        dc \in RTLedgers }

InitRT ==
    /\ zone = "fixed"
    /\ clock = FirstInstant
    /\ cal = NoCal
    /\ oracle = NoAnswer
    /\ rt \in { [NoRT EXCEPT !.saved = v] : v \in RTRecords }
    /\ IdleSession
    /\ IdleStore
    /\ IdleLock

RTSaveUser ==
    /\ ~disk.exists
    /\ disk' = SaveUser(disk, rt.saved)
    /\ UNCHANGED <<zone, clock, nano, authState, userData, fnVars,
                   storeVars, lockVars>>

RTLoadUser ==
    /\ disk.exists
    /\ ~rt.called
    /\ LET r == LoadUser(disk)
       IN  rt' = [rt EXCEPT !.loaded = r.u, !.err = r.err, !.called = TRUE]
    /\ UNCHANGED <<zone, clock, nano, authState, userData, disk, cal, oracle,
                   storeVars, lockVars>>

NextRT == RTSaveUser \/ RTLoadUser

SpecRT == InitRT /\ [][NextRT]_vars

(***************************************************************************)
(* SpecLegacy: LoadUser on a record written by an earlier version of the   *)
(* program, or edited by hand: some fields are absent from the text, and   *)
(* the reset hour may be any integer.  (A stored stat of 0 is the case of  *)
(* SpecRT.)                                                                *)
(***************************************************************************)
LegacyFields == {"str", "vit", "agi", "int", "day_reset_hour", "daily_completions"}

\* the tokens that make up field f in the text
FieldToks(f) ==
    IF f = "daily_completions" THEN {"daily_completions_row", "daily_completions"}
    ELSE {f}

\* the text without the fields of set fs
Drop(data, fs) ==
    SelectSeq(data, LAMBDA t : \A f \in fs : t.k \notin FieldToks(f))

LegacyRecords ==
    { [NewUser("bob", Hash("hunter")) EXCEPT
          !.Level = lv, !.EXP = (lv - 1) * EXPPerLevel,
          !.STR = a, !.VIT = b,
          !.DayResetHour = r,
          !.DailyCompletions = dc] :
        lv \in {1, 3}, a \in {5, 12}, b \in {5, 12}, r \in {-1, 0, 7, 24},
        dc \in { EmptyMap, [d \in {<< 2 >>} |-> [id \in {HabitID(1)} |-> TRUE]] } }

InitLegacy ==
    /\ zone = "fixed"
    /\ clock = FirstInstant
    /\ cal = NoCal
    /\ oracle = NoAnswer
    /\ rt \in { [NoRT EXCEPT !.saved = v, !.absent = fs] :
                  v \in LegacyRecords, fs \in SUBSET LegacyFields }
    /\ IdleSession
    /\ IdleStore
    /\ IdleLock

\* the file as the earlier version left it
LegacyWrite ==
    /\ ~disk.exists
    /\ disk' = WriteAt0(OpenTrunc(disk), Drop(Marshal(rt.saved), rt.absent))
    /\ UNCHANGED <<zone, clock, nano, authState, userData, fnVars,
                   storeVars, lockVars>>

NextLegacy == LegacyWrite \/ RTLoadUser

SpecLegacy == InitLegacy /\ [][NextLegacy]_vars

(***************************************************************************)
(* SpecStore: the sessions of the server on one username.  Each session    *)
(* holds the copy its own AuthUser loaded; SaveUser of a copy takes that   *)
(* copy's mutex only, and os.WriteFile is an open that truncates followed  *)
(* by a write at offset 0.                                                 *)
(***************************************************************************)
Sessions == {1, 2}

NoSession == [pc |-> "none", u |-> ZeroUser, buf |-> << >>, prev |-> << >>,
              saved |-> FALSE]

InitStore ==
    /\ zone = "fixed"
    /\ clock = FirstInstant
    /\ nano = [n |-> 0, used |-> FALSE]
    /\ authState = "login"
    /\ userData = ZeroUser
    /\ disk \in { SaveUser(NoFile, v) : v \in StoredRecords }
    /\ IdleFns
    /\ sess = [s \in Sessions |-> NoSession]
    /\ lastDone = 0
    /\ crashed = FALSE
    /\ IdleLock

storeFrame == <<zone, clock, nano, authState, userData, fnVars, lockVars>>

\* main.go line 99: the session logs in
StoreAuthUser(s) ==
    /\ ~crashed
    /\ sess[s].pc = "none"
    /\ LET r == AuthUser(disk, "hunter")
       IN  sess' = IF r.err = ""
                       THEN [sess EXCEPT ![s].pc = "idle", ![s].u = r.u]
                       ELSE sess
    /\ UNCHANGED <<disk, lastDone, crashed, storeFrame>>

\* main.go lines 199-200: AddHabit, and SaveUser up to json.MarshalIndent
StoreAddHabit(s) ==
    /\ ~crashed
    /\ sess[s].pc = "idle"
    /\ Len(sess[s].u.Habits) < MaxHabits
    /\ \E name \in Names, n \in 1 .. MaxNano :
        LET v == AddHabit(sess[s].u, name, n)
        IN  sess' = [sess EXCEPT ![s].u = v, ![s].buf = Marshal(v),
                                 ![s].pc = "marshalled"]
    /\ UNCHANGED <<disk, lastDone, crashed, storeFrame>>

\* main.go lines 258-265: RemoveHabit, and SaveUser up to json.MarshalIndent
StoreRemoveHabit(s) ==
    /\ ~crashed
    /\ sess[s].pc = "idle"
    /\ Len(sess[s].u.Habits) > 0
    /\ LET v == RemoveHabit(sess[s].u, 0).u
       IN  sess' = [sess EXCEPT ![s].u = v, ![s].buf = Marshal(v),
                                ![s].pc = "marshalled"]
    /\ UNCHANGED <<disk, lastDone, crashed, storeFrame>>

\* os.WriteFile: the open with O_TRUNC
StoreOpen(s) ==
    /\ ~crashed
    /\ sess[s].pc = "marshalled"
    /\ sess' = [sess EXCEPT ![s].pc = "opened", ![s].prev = disk.data]
    /\ disk' = OpenTrunc(disk)
    /\ UNCHANGED <<lastDone, crashed, storeFrame>>

\* os.WriteFile: the write and the close; SaveUser returns
StoreWrite(s) ==
    /\ ~crashed
    /\ sess[s].pc = "opened"
    /\ disk' = WriteAt0(disk, sess[s].buf)
    /\ sess' = [sess EXCEPT ![s].pc = "idle", ![s].saved = TRUE]
    /\ lastDone' = s
    /\ UNCHANGED <<crashed, storeFrame>>

\* the process dies: between two steps, or inside a write of which only
\* the first n tokens have reached the file
Crash ==
    /\ ~crashed
    /\ \E s \in Sessions : sess[s].pc # "none"
    /\ crashed' = TRUE
    /\ \/ UNCHANGED disk
       \/ \E s \in Sessions :
            /\ sess[s].pc = "opened"
            /\ \E n \in 1 .. (Len(sess[s].buf) - 1) :
                 disk' = WriteAt0(disk, SubSeq(sess[s].buf, 1, n))
    /\ UNCHANGED <<sess, lastDone, storeFrame>>

NextStore ==
    \/ \E s \in Sessions : StoreAuthUser(s)
    \/ \E s \in Sessions : StoreAddHabit(s)
    \/ \E s \in Sessions : StoreRemoveHabit(s)
    \/ \E s \in Sessions : StoreOpen(s)
    \/ \E s \in Sessions : StoreWrite(s)
    \/ Crash

SpecStore == InitStore /\ [][NextStore]_vars

(***************************************************************************)
(* SpecLock: two threads calling the methods of one UserData.  A thread at *)
(* pc lN is executing the statement of line N of store.go; a method's      *)
(* statements under the mutex are one step.                                *)
(***************************************************************************)
Threads == {"t1", "t2"}

IdleThread == [op |-> "", pc |-> "idle", today |-> << >>, arg |-> << >>]

\* the account the threads share: a new account with one quest
SharedUser == AddHabit(NewUser("bob", Hash("hunter")), "run", 1)

InitLock ==
    /\ zone = "fixed"
    /\ clock = InstantAt("fixed", FirstDate, 3)
    /\ nano = [n |-> 0, used |-> FALSE]
    /\ authState = "main"
    /\ userData = SharedUser
    /\ disk = NoFile
    /\ IdleFns
    /\ IdleStore
    /\ mu = NoThread
    /\ loc = [t \in Threads |-> IdleThread]

lockFrame == <<zone, clock, nano, authState, disk, fnVars, storeVars>>

At(t, op, pc) == loc[t].op = op /\ loc[t].pc = pc

Goto(t, pc) == [loc EXCEPT ![t].pc = pc]

Return(t) == [loc EXCEPT ![t] = IdleThread]

\* a thread calls a method of the account
Call(t) ==
    /\ loc[t].pc = "idle"
    /\ \/ loc' = [loc EXCEPT ![t].op = "UpdateStreak", ![t].pc = "l121"]
       \/ loc' = [loc EXCEPT ![t].op = "AllQuestsCompletedToday", ![t].pc = "l102"]
       \/ \E q \in HabitIDs(userData) :
            loc' = [loc EXCEPT ![t].op = "ToggleToday", ![t].pc = "l70",
                               ![t].arg = q]
       \/ \E hour \in HourInputs :
            loc' = [loc EXCEPT ![t].op = "UpdateDayResetHour", ![t].pc = "l211",
                               ![t].arg = hour]
       \/ loc' = [loc EXCEPT ![t].op = "EXPForNextLevel", ![t].pc = "l184"]
    /\ UNCHANGED <<userData, mu, lockFrame>>

\* u.mu.Lock() of lines 70, 106, 122 and 214
Lock(t) ==
    /\ \/ At(t, "ToggleToday", "l70") /\ loc' = Goto(t, "l72")
       \/ At(t, "AllQuestsCompletedToday", "l106") /\ loc' = Goto(t, "l108")
       \/ At(t, "UpdateStreak", "l122") /\ loc' = Goto(t, "l125")
       \/ At(t, "UpdateDayResetHour", "l214") /\ loc' = Goto(t, "l216")
    /\ mu = NoThread
    /\ mu' = t
    /\ UNCHANGED <<userData, lockFrame>>

\* line 121: today := u.TodayKey(), before the mutex is taken
UpdateStreak_l121(t) ==
    /\ At(t, "UpdateStreak", "l121")
    /\ loc' = [loc EXCEPT ![t].pc = "l122",
                          ![t].today = TodayKey(userData.DayResetHour, zone, clock)]
    /\ UNCHANGED <<userData, mu, lockFrame>>

\* lines 125-180, and the deferred Unlock
UpdateStreak_l125(t) ==
    /\ At(t, "UpdateStreak", "l125")
    /\ userData' = UpdateStreakLocked(userData, loc[t].today,
                       YesterdayKey(userData.DayResetHour, zone, clock))
    /\ mu' = NoThread
    /\ loc' = Return(t)
    /\ UNCHANGED lockFrame

\* line 102: len(u.Habits) == 0, before the mutex is taken
AllQuests_l102(t) ==
    /\ At(t, "AllQuestsCompletedToday", "l102")
    /\ loc' = IF Len(userData.Habits) = 0 THEN Return(t) ELSE Goto(t, "l105")
    /\ UNCHANGED <<userData, mu, lockFrame>>

\* line 105: today := u.TodayKey(), before the mutex is taken
AllQuests_l105(t) ==
    /\ At(t, "AllQuestsCompletedToday", "l105")
    /\ loc' = [loc EXCEPT ![t].pc = "l106",
                          ![t].today = TodayKey(userData.DayResetHour, zone, clock)]
    /\ UNCHANGED <<userData, mu, lockFrame>>

\* lines 108-116, and the deferred Unlock
AllQuests_l108(t) ==
    /\ At(t, "AllQuestsCompletedToday", "l108")
    /\ mu' = NoThread
    /\ loc' = Return(t)
    /\ UNCHANGED <<userData, lockFrame>>

\* lines 72-97, and the deferred Unlock
ToggleToday_l72(t) ==
    /\ At(t, "ToggleToday", "l72")
    /\ userData' = ToggleToday(userData, zone, clock, loc[t].arg).u
    /\ mu' = NoThread
    /\ loc' = Return(t)
    /\ UNCHANGED lockFrame

\* lines 211-213: the check of the hour
UpdateDayResetHour_l211(t) ==
    /\ At(t, "UpdateDayResetHour", "l211")
    /\ loc' = IF UpdateDayResetHour(userData, loc[t].arg).err
                  THEN Return(t) ELSE Goto(t, "l214")
    /\ UNCHANGED <<userData, mu, lockFrame>>

\* line 216, and the deferred Unlock
UpdateDayResetHour_l216(t) ==
    /\ At(t, "UpdateDayResetHour", "l216")
    /\ userData' = UpdateDayResetHour(userData, loc[t].arg).u
    /\ mu' = NoThread
    /\ loc' = Return(t)
    /\ UNCHANGED lockFrame

\* line 184: return u.Level * EXPPerLevel
EXPForNextLevel_l184(t) ==
    /\ At(t, "EXPForNextLevel", "l184")
    /\ loc' = Return(t)
    /\ UNCHANGED <<userData, mu, lockFrame>>

NextLock ==
    \E t \in Threads :
        \/ Call(t)
        \/ Lock(t)
        \/ UpdateStreak_l121(t)
        \/ UpdateStreak_l125(t)
        \/ AllQuests_l102(t)
        \/ AllQuests_l105(t)
        \/ AllQuests_l108(t)
        \/ ToggleToday_l72(t)
        \/ UpdateDayResetHour_l211(t)
        \/ UpdateDayResetHour_l216(t)
        \/ EXPForNextLevel_l184(t)

SpecLock == InitLock /\ [][NextLock]_vars

\* the fields of the account the statement at pc reads
Reads(pc) ==
    CASE pc = "l121" -> {"DayResetHour"}
      [] pc = "l105" -> {"DayResetHour"}
      [] pc = "l102" -> {"Habits"}
      [] pc = "l184" -> {"Level"}
      [] pc = "l125" -> {"Habits", "DailyCompletions", "LastCompleteDay",
                         "CurrentStreak", "LongestStreak", "DayResetHour"}
      [] pc = "l108" -> {"Habits", "DailyCompletions"}
      [] pc = "l72"  -> {"DayResetHour", "DailyCompletions", "EXP", "Level"}
      [] OTHER -> {}

\* the fields of the account the statement at pc writes
Writes(pc) ==
    CASE pc = "l125" -> {"LastCompleteDay", "CurrentStreak", "LongestStreak"}
      [] pc = "l72"  -> {"DailyCompletions", "EXP", "Level"}
      [] pc = "l216" -> {"DayResetHour"}
      [] OTHER -> {}

(***************************************************************************)
(* SpecDefer: two threads calling the locking methods of one UserData, and *)
(* SaveUser on it.  Lock, the statements under the mutex and the deferred  *)
(* Unlock are separate steps; exit records the return statement reached.   *)
(***************************************************************************)
\* the bound on len(u.Habits) and the reset hours passed in SpecDefer
DeferHabits == 1
DeferHours == {DefaultResetHour, 24}

\* the number of calls each thread makes
MaxCalls == 2

\* a thread between calls, n calls made
Parked(n) ==
    [op |-> "", pc |-> "idle", today |-> << >>, arg |-> << >>, exit |-> "", n |-> n]

\* the line of u.mu.Lock() in each method, and the line after it
LockLine ==
    [CompletedToday |-> "l56", ToggleToday |-> "l70",
     AllQuestsCompletedToday |-> "l106", UpdateStreak |-> "l122",
     UpdateDayResetHour |-> "l214", AddHabit |-> "l221", RemoveHabit |-> "l230",
     ApplyLevelUpStats |-> "l250", SaveUser |-> "l373"]

AfterLock ==
    [CompletedToday |-> "l58", ToggleToday |-> "l72",
     AllQuestsCompletedToday |-> "l108", UpdateStreak |-> "l125",
     UpdateDayResetHour |-> "l216", AddHabit |-> "l223", RemoveHabit |-> "l232",
     ApplyLevelUpStats |-> "l252", SaveUser |-> "l375"]

\* the first line of each method
EntryLine ==
    [CompletedToday |-> "l56", ToggleToday |-> "l70",
     AllQuestsCompletedToday |-> "l102", UpdateStreak |-> "l121",
     UpdateDayResetHour |-> "l211", AddHabit |-> "l221", RemoveHabit |-> "l230",
     ApplyLevelUpStats |-> "l250", SaveUser |-> "l373"]

Methods == DOMAIN LockLine

\* a return on an error skips the Unlock
ExitPcLeaksOnError(exit) == IF exit = "err" THEN "idle" ELSE "defer"

\* where a return statement under the mutex leads: "defer u.mu.Unlock()"
\* follows every Lock, so each return runs the Unlock
ExitPc(exit) == "defer"

\* whether TodayKey, which CompletedToday and ToggleToday call with the mutex
\* held, acquires the mutex: lines 46-53 have no Lock
TodayKeyLocks == FALSE

\* a call under the mutex of a method that locks blocks for ever (sync.Mutex
\* is not reentrant)
CalleeMayRun == ~TodayKeyLocks

Leave(t, exit) == [loc EXCEPT ![t].pc = ExitPc(exit), ![t].exit = exit]

InitDefer ==
    /\ zone = "fixed"
    /\ clock = InstantAt("fixed", FirstDate, 5)
    /\ nano = [n |-> 1, used |-> TRUE]
    /\ authState = "main"
    /\ userData = SharedUser
    /\ disk = SaveUser(NoFile, NewUser("bob", Hash("hunter")))
    /\ IdleFns
    /\ IdleStore
    /\ mu = NoThread
    /\ loc = [t \in Threads |-> Parked(0)]

\* a thread calls a method
DeferCall(t) ==
    /\ loc[t].pc = "idle"
    /\ loc[t].n < MaxCalls
    /\ \E op \in Methods :
        \E arg \in CASE op \in {"CompletedToday", "ToggleToday"} -> {HabitID(nano.n)}
                     [] op = "UpdateDayResetHour" -> DeferHours
                     [] op = "RemoveHabit" -> {0, DeferHabits}
                     [] OTHER -> {<< >>} :
            /\ op = "AddHabit" => Len(userData.Habits) < DeferHabits
            /\ op = "ApplyLevelUpStats" => userData.STR = baseStats + DefaultLevel
            /\ loc' = [loc EXCEPT ![t] = [Parked(loc[t].n + 1) EXCEPT !.op = op,
                                             !.pc = EntryLine[op], !.arg = arg]]
    /\ UNCHANGED <<userData, mu, lockFrame>>

\* u.mu.Lock(): the thread goes on once the mutex is free
DeferLock(t) ==
    /\ loc[t].op \in Methods
    /\ loc[t].pc = LockLine[loc[t].op]
    /\ mu = NoThread
    /\ mu' = t
    /\ loc' = Goto(t, AfterLock[loc[t].op])
    /\ UNCHANGED <<userData, lockFrame>>

\* the deferred u.mu.Unlock(), run by the return
DeferUnlock(t) ==
    /\ loc[t].pc = "defer"
    /\ mu' = NoThread
    /\ loc' = [loc EXCEPT ![t] = Parked(loc[t].n)]
    /\ UNCHANGED <<userData, lockFrame>>

\* the statements before the Lock: lines 102-105, 121 and 211-213
BeforeLock(t) ==
    /\ \/ /\ At(t, "AllQuestsCompletedToday", "l102")
          /\ loc' = IF Len(userData.Habits) = 0
                        THEN [loc EXCEPT ![t] = Parked(loc[t].n)]
                        ELSE [loc EXCEPT ![t].pc = "l106",
                                ![t].today = TodayKey(userData.DayResetHour, zone, clock)]
       \/ /\ At(t, "UpdateStreak", "l121")
          /\ loc' = [loc EXCEPT ![t].pc = "l122",
                        ![t].today = TodayKey(userData.DayResetHour, zone, clock)]
       \/ /\ At(t, "UpdateDayResetHour", "l211")
          /\ loc' = IF UpdateDayResetHour(userData, loc[t].arg).err
                        THEN [loc EXCEPT ![t] = Parked(loc[t].n)] ELSE Goto(t, "l214")
    /\ UNCHANGED <<userData, mu, lockFrame>>

\* lines 58-66 of CompletedToday, up to the return
CompletedToday_l58(t) ==
    /\ At(t, "CompletedToday", "l58")
    /\ CalleeMayRun
    /\ loc' = Leave(t, IF Row(userData.DailyCompletions,
                              TodayKey(userData.DayResetHour, zone, clock)) = EmptyMap
                          THEN "l64" ELSE "l66")
    /\ UNCHANGED <<userData, mu, lockFrame>>

\* lines 72-97 of ToggleToday
ToggleToday_l72_97(t) ==
    /\ At(t, "ToggleToday", "l72")
    /\ CalleeMayRun
    /\ userData' = ToggleToday(userData, zone, clock, loc[t].arg).u
    /\ loc' = Leave(t, "l97")
    /\ UNCHANGED <<mu, lockFrame>>

\* lines 108-116 of AllQuestsCompletedToday
AllQuests_l108_116(t) ==
    /\ At(t, "AllQuestsCompletedToday", "l108")
    /\ loc' = Leave(t, IF AllComplete(userData, loc[t].today) THEN "l116" ELSE "l113")
    /\ UNCHANGED <<userData, mu, lockFrame>>

\* lines 125-180 of UpdateStreak
UpdateStreak_l125_180(t) ==
    /\ At(t, "UpdateStreak", "l125")
    /\ userData' = UpdateStreakLocked(userData, loc[t].today,
                       YesterdayKey(userData.DayResetHour, zone, clock))
    /\ loc' = Leave(t, IF AllComplete(userData, loc[t].today) THEN "l181" ELSE "l149")
    /\ UNCHANGED <<mu, lockFrame>>

\* lines 216-217 of UpdateDayResetHour
UpdateDayResetHour_l216_217(t) ==
    /\ At(t, "UpdateDayResetHour", "l216")
    /\ userData' = UpdateDayResetHour(userData, loc[t].arg).u
    /\ loc' = Leave(t, "l217")
    /\ UNCHANGED <<mu, lockFrame>>

\* lines 223-226 of AddHabit
AddHabit_l223(t) ==
    /\ At(t, "AddHabit", "l223")
    /\ userData' = AddHabit(userData, "run", nano.n)
    /\ loc' = Leave(t, "l226")
    /\ UNCHANGED <<mu, lockFrame>>

\* lines 232-236 of RemoveHabit
RemoveHabit_l232(t) ==
    /\ At(t, "RemoveHabit", "l232")
    /\ LET r == RemoveHabit(userData, loc[t].arg)
       IN  /\ userData' = r.u
           /\ loc' = Leave(t, IF r.ok THEN "l236" ELSE "l233")
    /\ UNCHANGED <<mu, lockFrame>>

\* lines 252-255 of ApplyLevelUpStats
ApplyLevelUpStats_l252(t) ==
    /\ At(t, "ApplyLevelUpStats", "l252")
    /\ userData' = ApplyLevelUpStats(userData, 1, 1, 1, 1)
    /\ loc' = Leave(t, "l256")
    /\ UNCHANGED <<mu, lockFrame>>

\* lines 375-383 of SaveUser: MkdirAll or WriteFile may fail
SaveUser_l375(t) ==
    /\ At(t, "SaveUser", "l375")
    /\ \/ disk' = SaveUser(disk, userData) /\ loc' = Leave(t, "ok")
       \/ disk' = disk /\ loc' = Leave(t, "err")
    /\ UNCHANGED <<zone, clock, nano, authState, userData, mu, fnVars, storeVars>>

\* the steps of thread t other than the call and the Lock
DeferRun(t) ==
    \/ BeforeLock(t)
    \/ CompletedToday_l58(t)
    \/ ToggleToday_l72_97(t)
    \/ AllQuests_l108_116(t)
    \/ UpdateStreak_l125_180(t)
    \/ UpdateDayResetHour_l216_217(t)
    \/ AddHabit_l223(t)
    \/ RemoveHabit_l232(t)
    \/ ApplyLevelUpStats_l252(t)
    \/ SaveUser_l375(t)
    \/ DeferUnlock(t)

NextDefer == \E t \in Threads : DeferCall(t) \/ DeferLock(t) \/ DeferRun(t)

\* the scheduler runs every runnable goroutine, and a goroutine waiting in
\* Lock is handed the mutex once it has waited long enough (starvation mode
\* of sync.Mutex): no waiter is passed over for ever
FairDefer ==
    \A t \in Threads : WF_vars(DeferRun(t)) /\ SF_vars(DeferLock(t))

SpecDefer == InitDefer /\ [][NextDefer]_vars /\ FairDefer

(***************************************************************************)
(* SpecReg: the sessions of the server registering one username at the     *)
(* same time.  CreateUser takes no lock: the check of the file, the hashing *)
(* and the two halves of os.WriteFile are steps of their own.              *)
(***************************************************************************)
RegPasswords == {"hunter", "secret", "ab"}

\* found: whether the file existed when this call's WriteFile opened it
NoCall == [pc |-> "none", name |-> "", password |-> "", buf |-> << >>,
           err |-> "", found |-> FALSE]

InitReg ==
    /\ zone = "fixed"
    /\ clock = FirstInstant
    /\ nano = [n |-> 0, used |-> FALSE]
    /\ authState = "register"
    /\ userData = ZeroUser
    /\ disk \in {NoFile} \cup { SaveUser(NoFile, v) : v \in StoredRecords }
    /\ IdleFns
    /\ sess = [s \in Sessions |-> NoCall]
    /\ lastDone = 0
    /\ crashed = FALSE
    /\ IdleLock

\* main.go, "enter" on the register form: store.CreateUser is called
RegCall(s) ==
    /\ sess[s].pc = "none"
    /\ \E name \in Usernames, password \in RegPasswords :
        sess' = [sess EXCEPT ![s] = [NoCall EXCEPT !.pc = "l338", !.name = name,
                                                   !.password = password]]
    /\ UNCHANGED <<disk, lastDone, crashed, storeFrame>>

\* lines 338-344: the username is normalized, the two arguments are checked
CreateUser_l338(s) ==
    /\ sess[s].pc = "l338"
    /\ LET err == CreateUserErr(NoFile, sess[s].name, sess[s].password)
       IN  sess' = IF err # ""
                       THEN [sess EXCEPT ![s].pc = "returned", ![s].err = err]
                       ELSE [sess EXCEPT ![s].pc = "l345"]
    /\ UNCHANGED <<disk, lastDone, crashed, storeFrame>>

\* lines 345-347: UserExists, an os.Stat of the file
CreateUser_l345(s) ==
    /\ sess[s].pc = "l345"
    /\ sess' = IF UserExists(disk)
                   THEN [sess EXCEPT ![s].pc = "returned",
                                     ![s].err = "username already taken"]
                   ELSE [sess EXCEPT ![s].pc = "l348"]
    /\ UNCHANGED <<disk, lastDone, crashed, storeFrame>>

\* lines 348-365 and SaveUser up to json.MarshalIndent
CreateUser_l348(s) ==
    /\ sess[s].pc = "l348"
    /\ sess' = [sess EXCEPT ![s].pc = "l383",
                   ![s].buf = Marshal(NewUser(Normalize(sess[s].name),
                                              Hash(sess[s].password)))]
    /\ UNCHANGED <<disk, lastDone, crashed, storeFrame>>

\* line 383, os.WriteFile: the open with O_CREATE|O_TRUNC
CreateUser_l383_open(s) ==
    /\ sess[s].pc = "l383"
    /\ sess' = [sess EXCEPT ![s].pc = "opened", ![s].found = disk.exists]
    /\ disk' = OpenTrunc(disk)
    /\ UNCHANGED <<lastDone, crashed, storeFrame>>

\* line 383, os.WriteFile: the write; SaveUser and CreateUser return nil
CreateUser_l383_write(s) ==
    /\ sess[s].pc = "opened"
    /\ disk' = WriteAt0(disk, sess[s].buf)
    /\ sess' = [sess EXCEPT ![s].pc = "returned"]
    /\ lastDone' = s
    /\ UNCHANGED <<crashed, storeFrame>>

NextReg ==
    \E s \in Sessions :
        \/ RegCall(s)
        \/ CreateUser_l338(s)
        \/ CreateUser_l345(s)
        \/ CreateUser_l348(s)
        \/ CreateUser_l383_open(s)
        \/ CreateUser_l383_write(s)

SpecReg == InitReg /\ [][NextReg]_vars

(***************************************************************************)
(* SpecLevel: an account whose caller applies a split of four points with  *)
(* ApplyLevelUpStats after each ToggleToday that reports a level-up.       *)
(***************************************************************************)
\* the level-ups after which the caller is no longer followed
MaxLevelUps == 2

StatTotal(u) == u.STR + u.VIT + u.AGI + u.INT

\* an account made by CreateUser, nine completions of quests removed since,
\* and one quest
InitLevel ==
    /\ zone = "fixed"
    /\ clock = InstantAt("fixed", FirstDate + 1, 5)
    /\ nano = [n |-> 1, used |-> TRUE]
    /\ authState = "main"
    /\ userData = AddHabit(Veteran, "run", 1)
    /\ disk = NoFile
    /\ IdleFns
    /\ IdleStore
    /\ IdleLock

\* ToggleToday, and on leveledUp one split of pointsToAllocate points applied
LevelToggle ==
    /\ StatTotal(userData) < StatTotal(Veteran) + pointsToAllocate * MaxLevelUps
    /\ \E q \in HabitIDs(userData) :
        LET r == ToggleToday(userData, zone, clock, q)
        IN  IF r.leveledUp
                THEN \E split \in randomFallback(pointsToAllocate) :
                        userData' = ApplyLevelUpStats(r.u, split.STR, split.VIT,
                                                      split.AGI, split.INT)
                ELSE userData' = r.u
    /\ UNCHANGED <<zone, clock, nano, authState, disk, fnVars, storeVars, lockVars>>

NextLevel == LevelToggle

SpecLevel == InitLevel /\ [][NextLevel]_vars

(***************************************************************************)
(* Properties                                                              *)
(***************************************************************************)
LoggedIn == authState = "main"

Today == TodayKey(userData.DayResetHour, zone, clock)

\* the quest ids a caller may pass: those of the model, and one never made
QuestIDs == { HabitID(n) : n \in -1 .. (MaxNano + 1) }

\* C1: toggling a quest twice within one logical day, with nothing in
\* between, restores EXP, Level and the quest's entry in today's row.
C1_ToggleTwiceRestores ==
    LoggedIn =>
        \A q \in QuestIDs :
        \A t2 \in {clock} \cup (IF HasNext(zone, clock)
                                  THEN {NextInstant(zone, clock)} ELSE {}) :
            LET first  == ToggleToday(userData, zone, clock, q).u
                second == ToggleToday(first, zone, t2, q).u
            IN  TodayKey(userData.DayResetHour, zone, t2) = Today =>
                    /\ second.EXP = userData.EXP
                    /\ second.Level = userData.Level
                    /\ CompletedToday(second, zone, t2, q)
                           = CompletedToday(userData, zone, clock, q)

\* a quest of a new account, completed and un-completed again today (its
\* entry is there and false), and EXP and Level are back at 0 and 1
C1_Witness ==
    /\ LoggedIn
    /\ \E q \in HabitIDs(userData) :
          /\ q \in DOMAIN Row(userData.DailyCompletions, Today)
          /\ ~CompletedToday(userData, zone, clock, q)
    /\ userData.EXP = 0
    /\ userData.Level = 1

\* the account levels up every 100 EXP
LevelMatchesEXP(v) ==
    /\ v.EXP < v.Level * 100
    /\ v.Level > 1 => v.EXP >= (v.Level - 1) * 100

\* C2: after every ToggleToday call, completing or un-completing, on every
\* account the session can hold, EXP < Level*100 and, if Level > 1,
\* EXP >= (Level-1)*100.
C2_LevelEveryHundredEXP ==
    LoggedIn =>
        \A q \in QuestIDs :
            LevelMatchesEXP(ToggleToday(userData, zone, clock, q).u)

\* a completion has taken the account to EXP 100 and Level 2, and
\* un-completing the quest takes it back to Level 1
C2_Witness ==
    /\ LoggedIn
    /\ userData.EXP = 100
    /\ userData.Level = 2
    /\ \E q \in HabitIDs(userData) :
          /\ CompletedToday(userData, zone, clock, q)
          /\ ToggleToday(userData, zone, clock, q).u.Level = 1

\* C3: after any sequence of operations on an account,
\* LongestStreak >= CurrentStreak >= 0.
C3_StreakBound ==
    LoggedIn =>
        /\ userData.LongestStreak >= userData.CurrentStreak
        /\ userData.CurrentStreak >= 0

\* a credited day was taken back: the streak is below the longest one
C3_Witness ==
    /\ LoggedIn
    /\ userData.LongestStreak = 1
    /\ userData.CurrentStreak = 0
    /\ userData.LastCompleteDay = << >>

\* C4: UpdateStreak on a logical day D with every current quest true in D's
\* row and LastCompleteDay # D adds one to CurrentStreak if LastCompleteDay
\* is the key of day D-1 and sets it to 1 otherwise, sets LastCompleteDay
\* to D and LongestStreak to max(LongestStreak, CurrentStreak).
C4_StreakCreditsDay ==
    LoggedIn =>
        LET v   == UpdateStreak(userData, zone, clock, clock)
            cur == IF userData.LastCompleteDay = << Today[1] - 1 >>
                       THEN userData.CurrentStreak + 1
                       ELSE 1
        IN  (AllComplete(userData, Today) /\ userData.LastCompleteDay # Today) =>
                /\ v.CurrentStreak = cur
                /\ v.LastCompleteDay = Today
                /\ v.LongestStreak =
                       IF cur > userData.LongestStreak THEN cur
                       ELSE userData.LongestStreak

\* C5: whatever the API answers, GetLevelUpStats returns four non-negative
\* values that sum to exactly 4.
C5_SplitIsValid ==
    oracle.called =>
        /\ oracle.out.STR >= 0 /\ oracle.out.VIT >= 0
        /\ oracle.out.AGI >= 0 /\ oracle.out.INT >= 0
        /\ Total(oracle.out) = 4

\* C6: for every reset hour r, an instant whose hour of day is below r has
\* the key of the previous calendar date and any other instant the key of
\* its own date, so that the key is D exactly from r:00 on D to r:00 on D+1.
C6_DayKeyIsLogicalDate ==
    cal.called =>
        cal.key = IF HourOf(zone, clock) < cal.r
                      THEN << DateOf(zone, clock) - 1 >>
                      ELSE << DateOf(zone, clock) >>

\* C7: every read and every write of a field of the account happens with
\* the account's mutex held, and no two threads are at statements that
\* access one field with at least one of them writing it.
C7_FieldsUnderMutex ==
    /\ \A t \in Threads :
          Reads(loc[t].pc) \cup Writes(loc[t].pc) # {} => mu = t
    /\ \A t1 \in Threads : \A t2 \in Threads \ {t1} :
          Writes(loc[t1].pc) \cap (Reads(loc[t2].pc) \cup Writes(loc[t2].pc)) = {}

\* C8: when two sessions hold copies of one account and both have saved,
\* the stored record is, field for field, the copy of the session whose
\* SaveUser returned last.
C8_LastSaveWins ==
    (/\ ~crashed
     /\ \A s \in Sessions : sess[s].pc = "idle" /\ sess[s].saved)
        => LoadUser(disk) = [u |-> sess[lastDone].u, err |-> ""]

\* C9: after a crash during SaveUser (of the only session there is), the
\* file holds the complete text it held before the save or the complete new
\* text, and LoadUser reads it without an error.
C9_CrashLeavesWholeRecord ==
    (crashed /\ Cardinality({ s \in Sessions : sess[s].pc # "none" }) = 1)
        => /\ LoadUser(disk).err = ""
           /\ \A s \in Sessions :
                 sess[s].pc = "opened" => disk.data \in {sess[s].prev, sess[s].buf}

\* C10: LoadUser after SaveUser returns, without an error, a record equal
\* to the saved one in every field.
C10_SaveLoadRoundTrip ==
    rt.called => rt.err = "" /\ rt.loaded = rt.saved

\* C11: LoadUser of a record from which fields are absent sets an absent
\* stat to 10 + level, an absent or out-of-range reset hour to 4 and an
\* absent ledger to the empty ledger, and leaves the fields present as stored.
C11_AbsentFieldsDefault ==
    rt.called =>
        LET stat(f, stored, loaded) ==
                loaded = IF f \in rt.absent THEN baseStats + rt.loaded.Level
                         ELSE stored
        IN  /\ rt.err = ""
            /\ rt.loaded.Level = rt.saved.Level
            /\ stat("str", rt.saved.STR, rt.loaded.STR)
            /\ stat("vit", rt.saved.VIT, rt.loaded.VIT)
            /\ stat("agi", rt.saved.AGI, rt.loaded.AGI)
            /\ stat("int", rt.saved.INT, rt.loaded.INT)
            /\ rt.loaded.DayResetHour =
                   IF "day_reset_hour" \in rt.absent
                          \/ rt.saved.DayResetHour \notin 0 .. 23
                       THEN DefaultResetHour
                       ELSE rt.saved.DayResetHour
            /\ rt.loaded.DailyCompletions =
                   IF "daily_completions" \in rt.absent THEN EmptyMap
                   ELSE rt.saved.DailyCompletions

\* C12: every AddHabit call makes an id that no quest added to the account
\* before has; in particular the quests of the list have distinct ids.
C12_FreshQuestID ==
    LoggedIn =>
        \A i \in 1 .. Len(userData.Habits) : \A j \in 1 .. Len(userData.Habits) :
            i # j => userData.Habits[i].ID # userData.Habits[j].ID

\* C13: CreateUser fails and leaves the stored records as they are when the
\* normalized username is empty, the password has fewer than 4 characters
\* or the username has a record; a username without a record has none after
\* the failure.
C13_CreateUserRejects ==
    \A name \in Usernames, password \in Passwords :
        LET r == CreateUser(disk, name, password)
        IN  (Normalize(name) = "" \/ Len(password) < 4 \/ UserExists(disk)) =>
                /\ r.err # ""
                /\ r.file = disk
                /\ UserExists(r.file) = UserExists(disk)

\* a registered account with a quest, logged out: registering the name
\* again fails as taken
C13_Witness ==
    /\ authState = "login"
    /\ UserExists(disk)
    /\ Len(LoadUser(disk).u.Habits) = 1
    /\ LoadUser(disk).u.EXP = 0
    /\ CreateUser(disk, " Bob ", "hunter").err = "username already taken"

\* C14: UpdateDayResetHour(h) with h outside 0..23 returns an error and
\* changes nothing, with h in 0..23 sets the reset hour to h; the reset hour
\* of an account made by CreateUser or loaded by LoadUser is in 0..23.
C14_ResetHourInRange ==
    /\ \A h \in HourInputs :
          LoadUser(SaveUser(NoFile, [Veteran EXCEPT !.DayResetHour = h]))
              .u.DayResetHour \in 0 .. 23
    /\ LoggedIn =>
          /\ userData.DayResetHour \in 0 .. 23
          /\ \A h \in HourInputs :
                LET r == UpdateDayResetHour(userData, h)
                IN  IF h \in 0 .. 23
                        THEN ~r.err /\ r.u = [userData EXCEPT !.DayResetHour = h]
                        ELSE r.err /\ r.u = userData

\* the settings screen has moved the reset hour of an account with a
\* quest from 4 to 0
C14_Witness ==
    /\ LoggedIn
    /\ userData.DayResetHour = 0
    /\ Len(userData.Habits) = 1
    /\ LoadUser(disk).u.DayResetHour = 0

\* C15: a ToggleToday call that completes a quest (its entry of today's row
\* goes from false to true) never lowers Level, and EXP < Level*100 holds
\* after it; so along completions only, Level is non-decreasing.
C15_CompletionsNeverLevelDown ==
    LoggedIn =>
        \A q \in QuestIDs :
            ~CompletedToday(userData, zone, clock, q) =>
                LET v == ToggleToday(userData, zone, clock, q).u
                IN  /\ v.Level >= userData.Level
                    /\ v.EXP < v.Level * EXPPerLevel

\* completions on two logical days have taken the account from 90 EXP
\* over the threshold to 110 EXP at level 2
C15_Witness ==
    /\ LoggedIn
    /\ userData.EXP = 110
    /\ userData.Level = 2
    /\ Cardinality({ d \in DOMAIN userData.DailyCompletions :
                       \E q \in HabitIDs(userData) :
                           Lookup(userData.DailyCompletions[d], q) }) = 2

\* C16 as stated: the first signal of ToggleToday is true exactly when EXP
\* after the call differs from EXP before it, and the second exactly when
\* Level was incremented during the call.
C16_SignalsAsStated ==
    LoggedIn =>
        \A q \in QuestIDs :
            LET r == ToggleToday(userData, zone, clock, q)
            IN  /\ r.gainedEXP = (r.u.EXP # userData.EXP)
                /\ r.leveledUp = (r.u.Level > userData.Level)

\* C16, amended: the first signal of ToggleToday is true exactly when the
\* call completes the quest (EXP rises by 10) and false when it un-completes
\* it (EXP falls by 10, not below 0); the second signal is true exactly when
\* Level was incremented during the call.
C16_SignalsOfToggle ==
    LoggedIn =>
        \A q \in QuestIDs :
            LET r == ToggleToday(userData, zone, clock, q)
            IN  /\ r.gainedEXP = ~CompletedToday(userData, zone, clock, q)
                /\ r.u.EXP = IF r.gainedEXP THEN userData.EXP + EXPPerQuest
                             ELSE IF userData.EXP < EXPPerQuest THEN 0
                             ELSE userData.EXP - EXPPerQuest
                /\ r.leveledUp = (r.u.Level > userData.Level)

\* a completed quest of an account at the threshold: un-completing it
\* lowers EXP from 100 to 90 and the first signal is false; and an account
\* at 90 EXP whose completion signals the level-up is reached before it
C16_Witness ==
    /\ LoggedIn
    /\ userData.EXP = 100
    /\ \E q \in HabitIDs(userData) :
          LET r == ToggleToday(userData, zone, clock, q)
          IN  /\ ~r.gainedEXP
              /\ r.u.EXP = 90
              /\ ToggleToday(r.u, zone, clock, q).leveledUp

\* the account has no quest, or a quest that is not true in today's row
SomeQuestOpen ==
    \/ Len(userData.Habits) = 0
    \/ \E i \in 1 .. Len(userData.Habits) :
          ~Lookup(Row(userData.DailyCompletions, Today), userData.Habits[i].ID)

\* C17: when UpdateStreak runs and not every current quest is true in
\* today's row (or there is no quest): if LastCompleteDay is today's key,
\* CurrentStreak goes down by one, not below 0, and LastCompleteDay is
\* cleared; otherwise the three streak fields are unchanged.
C17_StreakTakenBack ==
    (LoggedIn /\ SomeQuestOpen) =>
        LET v == UpdateStreak(userData, zone, clock, clock)
        IN  IF userData.LastCompleteDay = Today
                THEN /\ v.CurrentStreak = IF userData.CurrentStreak = 0 THEN 0
                                          ELSE userData.CurrentStreak - 1
                     /\ v.LastCompleteDay = << >>
                ELSE /\ v.CurrentStreak = userData.CurrentStreak
                     /\ v.LongestStreak = userData.LongestStreak
                     /\ v.LastCompleteDay = userData.LastCompleteDay

\* today was credited and its quest has been unchecked since: the next
\* UpdateStreak takes the day back
C17_Witness ==
    /\ LoggedIn
    /\ SomeQuestOpen
    /\ userData.LastCompleteDay = Today
    /\ userData.CurrentStreak = 1
    /\ Len(userData.Habits) = 1

\* three quests with different ids and names
ThreeQuests ==
    << [ID |-> HabitID(1), Name |-> "run"], [ID |-> HabitID(2), Name |-> "read"],
       [ID |-> HabitID(3), Name |-> "sleep"] >>

\* RemoveHabit(i) on account w: out of range it returns false and changes
\* nothing; in range it removes the quest at position i, keeps the order of
\* the others and changes no other field
RemovesOnlyQuest(w, i) ==
    LET r == RemoveHabit(w, i)
        n == Len(w.Habits)
    IN  IF i < 0 \/ i >= n
            THEN ~r.ok /\ r.u = w
            ELSE /\ r.ok
                 /\ Len(r.u.Habits) = n - 1
                 /\ \A j \in 1 .. (n - 1) :
                       r.u.Habits[j] = w.Habits[IF j <= i THEN j ELSE j + 1]
                 /\ [r.u EXCEPT !.Habits = w.Habits] = w

\* C18: RemoveHabit(i) with i out of range returns false and changes
\* nothing; with i in range it removes exactly the quest at position i and
\* keeps the order of the others; the ledger (with the entries of the
\* removed quest), EXP, Level, stats and streak fields are unchanged.
C18_RemoveKeepsRest ==
    LoggedIn =>
        /\ \A i \in -1 .. MaxHabits : RemovesOnlyQuest(userData, i)
        /\ \A i \in -1 .. 3 :
              RemovesOnlyQuest([userData EXCEPT !.Habits = ThreeQuests], i)

\* a quest was completed today and removed: its entry is still in today's
\* row and the EXP it gave is still there
C18_Witness ==
    /\ LoggedIn
    /\ userData.Habits = << >>
    /\ Lookup(Row(userData.DailyCompletions, Today), HabitID(1))
    /\ userData.EXP = 100
    /\ LoadUser(disk).u = userData

\* instant t is r:00:00 local time
AtResetHour(z, t, r) ==
    /\ HourOf(z, t) = r
    /\ (t - DayStart(z, DateOf(z, t))) % Hour = 0

\* C19: NextResetTime is strictly later than now, is at r:00:00 and is the
\* earliest such instant; TimeUntilReset is never negative and never more
\* than 24 hours, also when the clock moves between the readings.
C19_NextResetIsNextBoundary ==
    /\ cal.stage # "" =>
          /\ cal.next > cal.now
          /\ AtResetHour(zone, cal.next, cal.r)
          /\ \A t \in (cal.now + 1) .. (cal.next - 1) : ~AtResetHour(zone, t, cal.r)
    /\ cal.stage = "done" =>
          /\ cal.until >= 0
          /\ cal.until <= 24 * Hour

\* C20: every quest id that becomes a key of a ledger row, in any step of
\* a session, is the id of a quest of the account's list at that moment.
C20_LedgerIdsWereQuests ==
    [][ (authState = "main" /\ authState' = "main") =>
          \A d \in DOMAIN userData'.DailyCompletions :
              \A id \in DOMAIN userData'.DailyCompletions[d] :
                  id \notin DOMAIN Row(userData.DailyCompletions, d)
                      => id \in HabitIDs(userData) ]_vars

\* the first toggle of a new account's quest has made its entry in today's
\* row, and the quest is in the list
C20_Witness ==
    /\ LoggedIn
    /\ userData.EXP = 10
    /\ DOMAIN userData.DailyCompletions = {Today}
    /\ DOMAIN userData.DailyCompletions[Today] = HabitIDs(userData)
    /\ Len(userData.Habits) = 1

\* C21: every method that takes the account mutex gives it back on each of
\* its returns, the failed ones included, and never asks for it while holding
\* it; so with fair scheduling every call by any thread returns.
C21_EveryCallReturns ==
    /\ [](\A t \in Threads :
            /\ loc[t].pc = "idle" => mu # t
            /\ (loc[t].op \in Methods /\ loc[t].pc = LockLine[loc[t].op]) => mu # t)
    /\ \A t \in Threads : (loc[t].pc # "idle") ~> (loc[t].pc = "idle")

\* C21 witness: a thread waits in Lock while the other one, holding the
\* mutex, is on the error return of SaveUser.
C21_Witness ==
    \E t1 \in Threads : \E t2 \in Threads \ {t1} :
        /\ mu = t1
        /\ loc[t1].pc = "defer" /\ loc[t1].op = "SaveUser" /\ loc[t1].exit = "err"
        /\ loc[t2].op \in Methods /\ loc[t2].pc = LockLine[loc[t2].op]

\* C22: of two CreateUser calls running at the same time on usernames that
\* normalize to one value, at most one succeeds, and no registration writes
\* over a record that is already stored.
C22_OneRegistrationWins ==
    /\ Cardinality({ s \in Sessions :
                        sess[s].pc = "returned" /\ sess[s].err = "" }) <= 1
    /\ \A s \in Sessions : ~sess[s].found

\* C23: in the session layer a toggle of a quest is followed by UpdateStreak
\* on the same account before the account is saved and before the next
\* input: when the handler returns, the account and the saved record carry
\* the refreshed streak.
C23_ToggleRefreshesStreak ==
    [][(/\ LoggedIn
        /\ authState' = "main"
        /\ userData'.DailyCompletions # userData.DailyCompletions)
          => LET v == UpdateStreak(userData', zone', clock', clock')
             IN  userData' = v /\ LoadUser(disk').u = v]_vars

\* the stats in their order of priority
Priority == <<"STR", "VIT", "AGI", "INT">>

\* C24: on four values whose sum is neither 0 nor 4, normalizeStats returns
\* the values rescaled by 4/sum and truncated, except that the residual
\* between 4 and their sum is added to or taken from the stats in the order
\* strength, vitality, agility, intelligence, no stat being driven below 0;
\* the result sums to 4.
C24_RescaleThenResidual ==
    (oracle.called /\ oracle.kind = "stats" /\ Total(oracle.st) \notin {0, 4})
        => LET \* n / d cut towards zero
               Truncated(n, d) ==
                   LET q == (IF n < 0 THEN 0 - n ELSE n)
                                \div (IF d < 0 THEN 0 - d ELSE d)
                   IN  IF (n < 0) # (d < 0) THEN 0 - q ELSE q
               total == Total(oracle.st)
               sc    == [f \in DOMAIN oracle.st |->
                            Truncated(pointsToAllocate * oracle.st[f], total)]
               diff  == pointsToAllocate - Total(sc)
               out   == oracle.out
           IN  /\ Total(out) = pointsToAllocate
               /\ \A f \in DOMAIN sc :
                     /\ diff >= 0 => out[f] >= sc[f]
                     /\ diff <= 0 => out[f] <= sc[f]
                     /\ sc[f] >= 0 => out[f] >= 0
               /\ \A i \in 1 .. 4 : \A j \in 1 .. (i - 1) :
                     (out[Priority[i]] # sc[Priority[i]]
                         /\ out[Priority[j]] = sc[Priority[j]])
                       => diff < 0 /\ sc[Priority[j]] < 0 - diff

\* C25: ToggleToday(q) changes the entry of q in the row of today's key
\* (making the row if there is none), EXP and Level, and nothing else: the
\* other rows and entries of the ledger, the quests, the four stats, the
\* streak fields and the reset hour stay as they were.
C25_ToggleFrame ==
    LoggedIn =>
        \A q \in QuestIDs :
            LET v   == ToggleToday(userData, zone, clock, q).u
                old == userData.DailyCompletions
                new == v.DailyCompletions
            IN  /\ [v EXCEPT !.DailyCompletions = old, !.EXP = userData.EXP,
                             !.Level = userData.Level] = userData
                /\ DOMAIN new = DOMAIN old \cup {Today}
                /\ \A day \in DOMAIN old : day # Today => new[day] = old[day]
                /\ DOMAIN new[Today] = DOMAIN Row(old, Today) \cup {q}
                /\ \A id \in DOMAIN Row(old, Today) :
                      id # q => new[Today][id] = old[Today][id]
                /\ new[Today][q] = ~Lookup(Row(old, Today), q)

\* C25 witness: a toggle has just been made on an account that has another
\* day's row and a streak: the quest is un-completed on a credited day, its
\* entry in today's row is there and false.
C25_Witness ==
    /\ LoggedIn
    /\ userData.LastCompleteDay = Today
    /\ userData.CurrentStreak >= 1
    /\ \E day \in DOMAIN userData.DailyCompletions : day # Today
    /\ Today \in DOMAIN userData.DailyCompletions
    /\ \E q \in HabitIDs(userData) :
        /\ q \in DOMAIN userData.DailyCompletions[Today]
        /\ ~userData.DailyCompletions[Today][q]

\* C26: on a logical day already credited to the streak, un-completing a
\* quest and completing it again the same day, UpdateStreak running after
\* each toggle, brings CurrentStreak and LastCompleteDay back to what they
\* were before the un-completion, whatever the streak was.
C26_UncheckRecheckRestoresStreak ==
    (LoggedIn /\ userData.LastCompleteDay = Today) =>
        \A q \in HabitIDs(userData) :
            CompletedToday(userData, zone, clock, q) =>
                LET unchecked == ToggleToday(userData, zone, clock, q).u
                    takenBack == UpdateStreak(unchecked, zone, clock, clock)
                    rechecked == ToggleToday(takenBack, zone, clock, q).u
                    credited  == UpdateStreak(rechecked, zone, clock, clock)
                IN  /\ credited.CurrentStreak = userData.CurrentStreak
                    /\ credited.LastCompleteDay = userData.LastCompleteDay

\* C27: when a ToggleToday call makes every current quest true in the row
\* of logical day D, the UpdateStreak call that follows it sets
\* LastCompleteDay to D, also when the reset boundary passes between the two
\* calls (each takes the lock and reads the clock for itself).
C27_CompletedDayIsCredited ==
    LoggedIn =>
        \A q \in HabitIDs(userData) :
        \A t2 \in {clock} \cup (IF HasNext(zone, clock)
                                  THEN {NextInstant(zone, clock)} ELSE {}) :
            LET toggled == ToggleToday(userData, zone, clock, q).u
            IN  (~AllComplete(userData, Today) /\ AllComplete(toggled, Today))
                    => UpdateStreak(toggled, zone, t2, t2).LastCompleteDay = Today

\* C28: in every execution of UpdateStreak, also one interleaved with an
\* UpdateDayResetHour of another thread, the key of "yesterday" that line 166
\* compares with LastCompleteDay is the date just before the key of "today"
\* of the same execution.
C28_YesterdayPrecedesToday ==
    \A t \in Threads :
        (/\ At(t, "UpdateStreak", "l125")
         /\ AllComplete(userData, loc[t].today)
         /\ userData.LastCompleteDay # loc[t].today)
            => YesterdayKey(userData.DayResetHour, zone, clock)
                   = << loc[t].today[1] - 1 >>

\* the entries of the whole ledger that are true
TrueEntries(dc) ==
    { p \in UNION { { <<day, id>> : id \in DOMAIN dc[day] } : day \in DOMAIN dc } :
        dc[p[1]][p[2]] }

\* C29: for an account made by CreateUser, after any calls of ToggleToday,
\* AddHabit, RemoveHabit and UpdateDayResetHour over any number of logical
\* days, EXP is 10 times the number of true entries of the whole ledger (the
\* floor at 0 is never used) and Level is EXP div 100 + 1.
C29_EXPCountsTrueEntries ==
    LoggedIn =>
        /\ userData.EXP = 10 * Cardinality(TrueEntries(userData.DailyCompletions))
        /\ userData.Level = (userData.EXP \div 100) + 1

\* C29 witness: an account at Level 2 whose ledger has rows of two days, a
\* false entry (a quest un-completed) and true entries of quests removed
\* since, the reset hour having been changed.
C29_Witness ==
    /\ LoggedIn
    /\ userData.Level = 2
    /\ userData.DayResetHour # DefaultResetHour
    /\ Cardinality(DOMAIN userData.DailyCompletions) >= 2
    /\ \E day \in DOMAIN userData.DailyCompletions :
       \E id \in DOMAIN userData.DailyCompletions[day] :
           ~userData.DailyCompletions[day][id]
    /\ \E p \in TrueEntries(userData.DailyCompletions) : p[2] \notin HabitIDs(userData)

\* C30: when a split of four points is applied once for each ToggleToday
\* that reports leveledUp, an account made by CreateUser has, after any
\* toggles, STR + VIT + AGI + INT = 44 + 4 * (Level - 1).
C30_StatsFollowLevel ==
    StatTotal(userData) = 44 + 4 * (userData.Level - 1)

=============================================================================
